---- MODULE Spec2Model ----
(***************************************************************************)
(* Room directory, realtime session lifecycle and URL state of the         *)
(* collaborative editor client (App.jsx) together with the data store it   *)
(* talks to (supabase.sql: tables, row level security, join_room_by_key).  *)
(*                                                                         *)
(* Text is modelled as a sequence of one-character strings so that trim()  *)
(* and toUpperCase() are computed, not assumed.                            *)
(***************************************************************************)
EXTENDS Integers, Sequences, FiniteSets, TLC

VARIABLES
    \* ---- data store (supabase.sql) ----
    rooms,          \* public.rooms: sequence of rows [id, key, owner_id]
    room_members,   \* public.room_members: sequence of rows [room_id, user_id]
    \* ---- identity provider (supabase.auth) ----
    auth,           \* the session the supabase client currently holds, or NoSession
    nextOid,        \* identity of the next session object / access token issued
    \* ---- React state of App (useState) ----
    status, users, session, roomId, roomError, roomLoading, inviteKey,
    \* ---- window.location / window.history ----
    url,            \* [room, doc, invite]: the query parameters of the address
    \* ---- React bookkeeping ----
    dirty,          \* a setState changed state since the last render
    effectsPending, \* a render was committed and its passive effects have not run
    mounted,        \* the mount effects have run
    rSession,       \* the values the last render saw (closures of handlers/effects)
    rRoomId, rInviteKey,
    provider,       \* useMemo provider of the last render: index into providers, 0 = null
    memoRoomId, memoToken, \* dependencies the provider memo was computed for
    effProvider, effUser,  \* dependencies of the session effect when it last ran
    effInviteKey, effSession, \* dependencies of the invite effect when it last ran
    \* ---- transports (WebsocketProvider instances ever constructed) ----
    providers,
    \* ---- directory requests in flight (async handlers suspended at an await) ----
    calls,
    signingOut,     \* handleSignOut is suspended at await supabase.auth.signOut()
    \* ---- history ----
    usersFrom,      \* provider whose awareness map the participant list was read from
    autoJoins,      \* join attempts issued by the invite effect
    signedOut,      \* handleSignOut has completed and nobody has signed in since
    ev,             \* the step just taken
    \* ---- the user memo of independent clients (name and colour) ----
    picks

vars == << rooms, room_members, auth, nextOid, status, users, session, roomId,
           roomError, roomLoading, inviteKey, url, dirty, effectsPending, mounted,
           rSession, rRoomId, rInviteKey, provider, memoRoomId, memoToken,
           effProvider, effUser, effInviteKey, effSession, providers, calls,
           signingOut, usersFrom, autoJoins, signedOut, ev, picks >>

-----------------------------------------------------------------------------
(* Bounds of the model *)

MaxSessionObjs == 2   \* session objects the identity provider delivers
MaxProviders == 2     \* transports constructed over a run
MaxCalls == 2         \* directory operations in flight at once
MaxRooms == 3         \* rows of public.rooms

(* Principals *)
Users == {"u1", "u2"}
NoUser == "anon"          \* auth.uid() IS NULL
NoSession == [user |-> NoUser, access_token |-> 0, oid |-> 0]
NoRoom == 0               \* roomId '' (falsy)
EmptyText == << >>        \* ''

-----------------------------------------------------------------------------
(* Text: trim and toUpperCase, toString(36) *)

LowerLetters == << "a","b","c","d","e","f","g","h","i","j","k","l","m",
                   "n","o","p","q","r","s","t","u","v","w","x","y","z" >>
UpperLetters == << "A","B","C","D","E","F","G","H","I","J","K","L","M",
                   "N","O","P","Q","R","S","T","U","V","W","X","Y","Z" >>
Digits == << "0","1","2","3","4","5","6","7","8","9" >>
Whitespace == { " ", "\t", "\n" }

\* String.prototype.toUpperCase on one character
UpperChar(c) ==
    IF \E i \in 1..Len(LowerLetters) : LowerLetters[i] = c
    THEN UpperLetters[CHOOSE i \in 1..Len(LowerLetters) : LowerLetters[i] = c]
    ELSE c

toUpperCase(t) == [i \in 1..Len(t) |-> UpperChar(t[i])]

RECURSIVE TrimStart(_)
TrimStart(t) ==
    IF t # << >> /\ Head(t) \in Whitespace THEN TrimStart(Tail(t)) ELSE t

RECURSIVE TrimEnd(_)
TrimEnd(t) ==
    IF t # << >> /\ t[Len(t)] \in Whitespace
    THEN TrimEnd(SubSeq(t, 1, Len(t) - 1)) ELSE t

\* String.prototype.trim
trim(t) == TrimEnd(TrimStart(t))

\* Number.prototype.toString(36) of a value in 0..35
ToString36(v) == (Digits \o LowerLetters)[v + 1]

RoomKeyBytes == 6
RoomKeyRadix == 36

\* generateRoomKey: six random bytes, each reduced mod 36 to a base-36 digit,
\* joined and uppercased.  bytes is what getRandomValues / Math.random produced.
generateRoomKey(bytes) ==
    toUpperCase([i \in 1..RoomKeyBytes |-> ToString36(bytes[i] % RoomKeyRadix)])

\* Outcomes of the random source the model explores: they reduce to the
\* keys "8K2A1F", "XYZ987" (bytes above 35 wrap around) and "ABC123".
RandomBytes == { << 8, 20, 2, 10, 1, 15 >>,
                 << 69, 70, 251, 45, 44, 7 >>,
                 << 10, 11, 12, 1, 2, 3 >> }

\* Text a user types into the room-key field.
TypedKeys == { << "8","k","2","a","1","f"," " >>,
               << "N","O","P","E","0","0" >>,
               << " ", "\t" >> }

\* Text a user pastes into the invite field: blanks, an invite link, an
\* invite link whose parameter decodes to a blank, a bare key.
InviteTexts ==
    { << " ", "\t" >>,
      << "h","t","t","p",":","/","/","h","/","?","i","n","v","i","t","e","=",
         "8","k","2","a","1","f" >>,
      << "h","t","t","p",":","/","/","h","/","?","d","o","c","=","1","&",
         "i","n","v","i","t","e","=","+" >>,
      << " ","N","O","P","E","0","0" >> }

\* position of the first c in t, 0 when there is none
IndexOf(t, c) ==
    IF \E k \in 1..Len(t) : t[k] = c
    THEN CHOOSE k \in 1..Len(t) : t[k] = c /\ \A j \in 1..(k - 1) : t[j] # c
    ELSE 0

Before(t, c) == IF IndexOf(t, c) = 0 THEN t ELSE SubSeq(t, 1, IndexOf(t, c) - 1)
After(t, c) == IF IndexOf(t, c) = 0 THEN << >> ELSE SubSeq(t, IndexOf(t, c) + 1, Len(t))

\* new URL(t) does not throw: t starts with a scheme (letters, then ':').
IsUrl(t) ==
    /\ IndexOf(t, ":") > 1
    /\ \A k \in 1..(IndexOf(t, ":") - 1) :
         \E i \in 1..Len(LowerLetters) : t[k] \in { LowerLetters[i], UpperLetters[i] }

\* url.searchParams.get(name): the value of the first name=value pair of
\* the query, '+' decoded to a blank; '' stands for null.  (Percent
\* escapes do not occur in the texts above.)
RECURSIVE GetParam(_, _)
GetParam(query, name) ==
    IF query = << >> THEN << >>
    ELSE LET pair == Before(query, "&") IN
         IF Before(pair, "=") = name
         THEN [k \in 1..Len(After(pair, "=")) |->
                 IF After(pair, "=")[k] = "+" THEN " " ELSE After(pair, "=")[k]]
         ELSE GetParam(After(query, "&"), name)

InviteParam == << "i","n","v","i","t","e" >>

\* handleJoinByInvite: the key taken from the trimmed text
InviteKeyOf(trimmed) ==
    IF IsUrl(trimmed) /\ GetParam(Before(After(trimmed, "?"), "#"), InviteParam) # << >>
    THEN GetParam(Before(After(trimmed, "?"), "#"), InviteParam)
    ELSE trimmed

\* The query parameters of the address the page is opened with
\* (room / doc: a room id or NoRoom when absent; invite: text, '' when absent),
\* and entries, the length of the tab's navigation history.
InitialUrls ==
    { [room |-> NoRoom, doc |-> NoRoom, invite |-> EmptyText, entries |-> 1],
      [room |-> NoRoom, doc |-> 1, invite |-> << " ","x","y","z","9","8","7" >>,
       entries |-> 1],
      [room |-> NoRoom, doc |-> NoRoom, invite |-> << "a","b","c","1","2","3" >>,
       entries |-> 1] }

\* Rows the tables hold when the page is opened: two rooms created earlier
\* by u2 (createRoom: a room row and the owner's membership row).
InitialRooms ==
    << [id |-> 1, key |-> << "8","K","2","A","1","F" >>, owner_id |-> "u2"],
       [id |-> 2, key |-> << "X","Y","Z","9","8","7" >>, owner_id |-> "u2"] >>
InitialMembers ==
    << [room_id |-> 1, user_id |-> "u2"], [room_id |-> 2, user_id |-> "u2"] >>

-----------------------------------------------------------------------------
(* pickColor: a 32-bit hash of the display name selects a palette colour.  *)
(* A 32-bit integer is held as its two 16-bit halves << hi, lo >> (the      *)
(* unsigned reading of the two's complement bit pattern), so that every     *)
(* intermediate value stays small; it is negative when hi >= HalfWord.      *)

userColors == << "#2b6cb0", "#2f855a", "#b83280", "#c05621", "#6b46c1" >>

Word == 65536
HalfWord == 32768
Int32Zero == << 0, 0 >>

\* String.prototype.charCodeAt for the characters that occur in labels
charCode(c) ==
    IF \E i \in 1..Len(Digits) : Digits[i] = c
    THEN 47 + (CHOOSE i \in 1..Len(Digits) : Digits[i] = c)
    ELSE IF \E i \in 1..Len(UpperLetters) : UpperLetters[i] = c
    THEN 64 + (CHOOSE i \in 1..Len(UpperLetters) : UpperLetters[i] = c)
    ELSE IF \E i \in 1..Len(LowerLetters) : LowerLetters[i] = c
    THEN 96 + (CHOOSE i \in 1..Len(LowerLetters) : LowerLetters[i] = c)
    ELSE CASE c = " " -> 32
           [] c = "." -> 46
           [] c = "@" -> 64
           [] c = "_" -> 95

\* hash << 5 : the low 32 bits of hash * 32
ShiftLeft5(h) ==
    LET lo == h[2] * 32
    IN << (h[1] * 32 + (lo \div Word)) % Word, lo % Word >>

\* (a - b + c) | 0 : the exact difference and sum, reduced to 32 bits
SubAddToInt32(a, b, c) ==
    LET lo == a[2] - b[2] + c
    IN << (a[1] - b[1] + (lo \div Word)) % Word, lo % Word >>

IsNegative(h) == h[1] >= HalfWord

\* (variant: an absolute value that keeps the sign bit of the operand)
MathAbs_keepSign(h) == [neg |-> IsNegative(h), mag |-> SubAddToInt32(Int32Zero, h, 0)]

\* Math.abs(hash): a Number, here its sign and its magnitude (up to 2^31)
MathAbs(h) ==
    [neg |-> FALSE,
     mag |-> IF IsNegative(h) THEN SubAddToInt32(Int32Zero, h, 0) ELSE h]

\* x % n of Numbers: the remainder takes the sign of the dividend
Remainder(x, n) ==
    LET r == ((x.mag[1] % n) * (Word % n) + (x.mag[2] % n)) % n
    IN IF x.neg THEN 0 - r ELSE r

\* the loop of pickColor from position i on
RECURSIVE HashFrom(_, _, _)
HashFrom(value, i, hash) ==
    IF i > Len(value) THEN hash
    ELSE HashFrom(value, i + 1,
                  SubAddToInt32(ShiftLeft5(hash), hash, charCode(value[i])))

\* index into userColors, and the element found there (undefined outside it)
PaletteIndex(value) == Remainder(MathAbs(HashFrom(value, 1, Int32Zero)), Len(userColors))

ElementAt(arr, index) ==
    IF index \in 0..(Len(arr) - 1) THEN arr[index + 1] ELSE "undefined"

pickColor(value) == ElementAt(userColors, PaletteIndex(value))

\* Labels of the user memo: session.user.email, or `User ${fallbackId}`
\* when there is no session.  "uaazmd@x.io" hashes to -2^31.
Labels ==
    { << "a","n","n","@","x",".","i","o" >>,
      << "b","o","b","@","x",".","i","o" >>,
      << "u","a","a","z","m","d","@","x",".","i","o" >>,
      << "U","s","e","r"," ","1","0","0" >>,
      << "U","s","e","r"," ","9","9","9" >>,
      << "G","y","d","Z","G","_" >>,
      << "a" >> }

\* Independent clients (browser tabs), each with its own user memo
Clients == { "c1", "c2" }
NoPick == [name |-> EmptyText, color |-> "", index |-> 0]

-----------------------------------------------------------------------------
(* Data store: supabase.sql *)

MsgRoomNotFound == "room-not-found"
MsgDuplicateKey == "duplicate key value violates unique constraint"
MsgRls == "new row violates row-level security policy"
MsgNotNull == "null value in column user_id violates not-null constraint"
MsgFetch == "TypeError: Failed to fetch"

\* A response { data, error }: room is the id returned (NoRoom when none),
\* error the message ("" when none).
Response(room, error) == [room |-> room, error |-> error]

\* policy "Rooms: insert own": with check (auth.uid() = owner_id)
RoomsInsertCheck(uid, row) == uid # NoUser /\ uid = row.owner_id

\* policy "Rooms: select member"
RoomsSelectUsing(uid, row, members) ==
    /\ uid # NoUser
    /\ \/ uid = row.owner_id
       \/ \E i \in 1..Len(members) :
             members[i].room_id = row.id /\ members[i].user_id = uid

\* policy "Room members: select own"
MembersSelectUsing(uid, row) == uid # NoUser /\ uid = row.user_id

\* policy "Room members: insert self"
MembersInsertCheck(uid, row) == uid # NoUser /\ uid = row.user_id

\* row level security is enabled on room_members and no policy is defined
\* for update: the default is to deny.
MembersUpdateUsing(uid, row) == FALSE

\* rooms.key is unique
KeyTaken(rs, key) == \E i \in 1..Len(rs) : rs[i].key = key

\* primary key (room_id, user_id)
HasMember(ms, rid, uid) ==
    \E i \in 1..Len(ms) : ms[i].room_id = rid /\ ms[i].user_id = uid

\* id uuid primary key default gen_random_uuid(): a value no row has yet
NewRoomId(rs) == Len(rs) + 1

\* insert into rooms (key, owner_id) ... returning id, key   (as role uid)
InsertRoom(rs, ms, uid, key, owner) ==
    LET row == [id |-> NewRoomId(rs), key |-> key, owner_id |-> owner] IN
    IF ~RoomsInsertCheck(uid, row)
    THEN [rooms |-> rs, resp |-> Response(NoRoom, MsgRls)]
    ELSE IF KeyTaken(rs, key)
    THEN [rooms |-> rs, resp |-> Response(NoRoom, MsgDuplicateKey)]
    ELSE IF ~RoomsSelectUsing(uid, row, ms)
    THEN [rooms |-> rs, resp |-> Response(NoRoom, MsgRls)]
    ELSE [rooms |-> Append(rs, row), resp |-> Response(row.id, "")]

\* (variant: the upsert answers without writing a row)
UpsertMember_noWrite(ms, uid, rid, user_id) ==
    [members |-> ms, resp |-> Response(rid, "")]

\* upsert({room_id, user_id}, {onConflict: 'room_id,user_id'}):
\* insert ... on conflict (room_id, user_id) do update set ...   (as role uid)
UpsertMember(ms, uid, rid, user_id) ==
    LET row == [room_id |-> rid, user_id |-> user_id] IN
    IF ~HasMember(ms, rid, user_id)
    THEN IF MembersInsertCheck(uid, row)
         THEN [members |-> Append(ms, row), resp |-> Response(rid, "")]
         ELSE [members |-> ms, resp |-> Response(NoRoom, MsgRls)]
    ELSE IF MembersSelectUsing(uid, row) /\ MembersUpdateUsing(uid, row)
         THEN [members |-> ms, resp |-> Response(rid, "")]
         ELSE [members |-> ms, resp |-> Response(NoRoom, MsgRls)]

\* select id into v_room_id from public.rooms where key = p_key
RoomIdByKey(rs, p_key) ==
    IF KeyTaken(rs, p_key)
    THEN rs[CHOOSE i \in 1..Len(rs) : rs[i].key = p_key].id
    ELSE NoRoom

\* (variant: an unknown key creates a membership instead of raising)
join_room_by_key_noraise(rs, ms, uid, p_key) ==
    LET v_room_id == RoomIdByKey(rs, p_key) IN
    [members |-> Append(ms, [room_id |-> v_room_id, user_id |-> uid]),
     resp |-> Response(v_room_id, "")]

\* public.join_room_by_key(p_key), security definer, called as role uid
join_room_by_key(rs, ms, uid, p_key) ==
    LET v_room_id == RoomIdByKey(rs, p_key) IN
    IF v_room_id = NoRoom
    THEN [members |-> ms, resp |-> Response(NoRoom, MsgRoomNotFound)]
    ELSE IF uid = NoUser
    THEN [members |-> ms, resp |-> Response(NoRoom, MsgNotNull)]
    ELSE IF HasMember(ms, v_room_id, uid)
    THEN [members |-> ms, resp |-> Response(v_room_id, "")]
    ELSE [members |-> Append(ms, [room_id |-> v_room_id, user_id |-> uid]),
          resp |-> Response(v_room_id, "")]

-----------------------------------------------------------------------------
(* Address bar *)

\* getRoomFromUrl: room, or the legacy doc alias
getRoomFromUrl(u) == IF u.room # NoRoom THEN u.room ELSE u.doc

getInviteFromUrl(u) == u.invite

\* (variant: the rewritten address is pushed as a new history entry and keeps
\* the legacy doc parameter)
updateRoomInUrl_pushState(u, rid) ==
    [room |-> rid, doc |-> u.doc, invite |-> EmptyText, entries |-> u.entries + 1]

\* updateRoomInUrl: set or delete room, delete doc and invite, and
\* history.replaceState, which replaces the current entry
updateRoomInUrl(u, rid) ==
    [room |-> IF rid # NoRoom THEN rid ELSE NoRoom,
     doc |-> NoRoom, invite |-> EmptyText, entries |-> u.entries]

-----------------------------------------------------------------------------
(* Transport: WebsocketProvider and its awareness channel *)

StatusValues == { "connecting", "connected", "disconnected" }
PeerStates == { "absent", "nouser", "user" }
NoName == ""
PeerName == "peer"

\* the transport has emitted no status event since it was constructed
NoStatus == "none"

\* new WebsocketProvider(wsUrl, roomId, doc, { params: { token } });
\* emitted is the status of the last status event the transport emitted
\* (history, kept while the transport is live).
NewProvider(rid, token) ==
    [room |-> rid, token |-> token, live |-> TRUE,
     onStatus |-> FALSE, onChange |-> FALSE,
     local |-> NoName, peer |-> "absent", emitted |-> NoStatus]

\* (variant: undefined descriptors are not filtered out)
AwarenessUsers_noFilter(pr) ==
    (IF pr.local # NoName THEN << [name |-> pr.local] >> ELSE << [name |-> NoName] >>)
    \o (IF pr.peer = "user" THEN << [name |-> PeerName] >>
        ELSE IF pr.peer = "nouser" THEN << [name |-> NoName] >> ELSE << >>)

\* Array.from(awareness.getStates().values()).map(s => s.user).filter(Boolean)
AwarenessUsers(pr) ==
    (IF pr.local # NoName THEN << [name |-> pr.local] >> ELSE << >>)
    \o (IF pr.peer = "user" THEN << [name |-> PeerName] >> ELSE << >>)

LiveProviders == { p \in 1..Len(providers) : providers[p].live }

-----------------------------------------------------------------------------
(* Directory requests in flight *)

NoResponse == Response(NoRoom, "")
NoCall == [kind |-> "none", pc |-> "none", text |-> EmptyText, key |-> EmptyText,
           owner |-> NoUser, uid |-> NoUser, resp |-> NoResponse, auto |-> FALSE]

Event(op, call, p, ran) == [op |-> op, call |-> call, p |-> p, ran |-> ran]

RemoveAt(seq, i) == SubSeq(seq, 1, i - 1) \o SubSeq(seq, i + 1, Len(seq))

\* (variant: the answer is not tested)
Failed_never(resp) == FALSE

\* if (error || !room) / if (error || !roomIdFromRpc)
Failed(resp) == resp.error # "" \/ resp.room = NoRoom

-----------------------------------------------------------------------------
(* Initial state: the component has rendered once, its effects have not run *)

Init ==
    /\ rooms = InitialRooms
    /\ room_members = InitialMembers
    /\ auth = NoSession
    /\ nextOid = 1
    /\ status = "connecting"
    /\ users = << >>
    /\ session = NoSession
    /\ url \in InitialUrls
    /\ roomId = getRoomFromUrl(url)
    /\ roomError = ""
    /\ roomLoading = FALSE
    /\ inviteKey = getInviteFromUrl(url)
    /\ dirty = FALSE
    /\ effectsPending = TRUE
    /\ mounted = FALSE
    /\ rSession = NoSession
    /\ rRoomId = roomId
    /\ rInviteKey = inviteKey
    /\ provider = 0
    /\ memoRoomId = roomId
    /\ memoToken = 0
    /\ effProvider = 0
    /\ effUser = 0
    /\ effInviteKey = EmptyText
    /\ effSession = 0
    /\ providers = << >>
    /\ calls = << >>
    /\ signingOut = FALSE
    /\ usersFrom = 0
    /\ autoJoins = 0
    /\ signedOut = FALSE
    /\ ev = Event("init", NoCall, 0, FALSE)
    /\ picks = [c \in Clients |-> NoPick]

dbVars == << rooms, room_members >>
authVars == << auth, nextOid >>
renderVars == << rSession, rRoomId, rInviteKey, provider, memoRoomId, memoToken >>
effectVars == << effProvider, effUser, effInviteKey, effSession, mounted >>

\* The user acts on a page that is rendered and whose effects have run.
Settled == mounted /\ ~dirty /\ ~effectsPending

-----------------------------------------------------------------------------
(* Identity provider notifications *)

\* Session objects supabase.auth hands to the onAuthStateChange callback (and
\* getSession().then): a sign-in, a refreshed token, the same session
\* delivered again as a new object, or null.
NextSessions ==
    IF auth = NoSession
    THEN { [user |-> u, access_token |-> nextOid, oid |-> nextOid] : u \in Users }
    ELSE { [auth EXCEPT !.access_token = nextOid, !.oid = nextOid],
           [auth EXCEPT !.oid = nextOid],
           NoSession }

\* (_event, nextSession) => setSession(nextSession)
onAuthStateChange ==
    /\ mounted
    /\ \E nextSession \in NextSessions :
         /\ nextSession # NoSession => nextOid <= MaxSessionObjs
         /\ auth' = nextSession
         /\ session' = nextSession
         /\ nextOid' = IF nextSession = NoSession THEN nextOid ELSE nextOid + 1
         /\ dirty' = (dirty \/ session' # session)
         /\ signedOut' = (signedOut /\ nextSession = NoSession)
    /\ ev' = Event("onAuthStateChange", NoCall, 0, FALSE)
    /\ UNCHANGED << dbVars, status, users, roomId, roomError, roomLoading,
                    inviteKey, url, effectsPending, renderVars, effectVars,
                    providers, calls, signingOut, usersFrom, autoJoins, picks >>

-----------------------------------------------------------------------------
(* Render: the body of App up to the hooks' memoised values *)

\* const token = session?.access_token || ''
Token(sess) == sess.access_token

\* (variant: the provider memo does not test roomId)
ProviderWanted_noRoomTest(token, rid) == token # 0

\* if (!token || !roomId) return null
ProviderWanted(token, rid) == token # 0 /\ rid # NoRoom

Render ==
    /\ mounted /\ dirty /\ ~effectsPending
    /\ LET token == Token(session)
           depsChanged == << roomId, token >> # << memoRoomId, memoToken >>
           construct == depsChanged /\ ProviderWanted(token, roomId)
           nextProvider == IF ~depsChanged THEN provider
                           ELSE IF construct THEN Len(providers) + 1
                           ELSE 0
       IN /\ construct => Len(providers) < MaxProviders
          /\ providers' = IF construct
                          THEN Append(providers, NewProvider(roomId, token))
                          ELSE providers
          /\ provider' = nextProvider
          /\ memoRoomId' = roomId
          /\ memoToken' = token
          /\ rSession' = session
          /\ rRoomId' = roomId
          /\ rInviteKey' = inviteKey
          /\ effectsPending' =
                 (\/ << nextProvider, session.oid >> # << effProvider, effUser >>
                  \/ << inviteKey, session.oid >> # << effInviteKey, effSession >>)
          /\ ev' = Event("Render", NoCall, nextProvider, construct)
    /\ dirty' = FALSE
    /\ UNCHANGED << dbVars, authVars, status, users, session, roomId, roomError,
                    roomLoading, inviteKey, url, effectVars, calls, signingOut,
                    usersFrom, autoJoins, signedOut, picks >>

-----------------------------------------------------------------------------
(* joinRoomByKey up to its await *)

NewCall(kind, pc, text, key, owner, auto) ==
    [kind |-> kind, pc |-> pc, text |-> text, key |-> key, owner |-> owner,
     uid |-> auth.user, resp |-> NoResponse, auto |-> auto]

\* (variant: the key is sent as typed)
joinRoomByKey_raw(keyValue, sess, auto) ==
    [roomError |-> "", roomLoading |-> TRUE, issued |-> TRUE,
     calls |-> Append(calls, NewCall("join", "rpc", keyValue, keyValue,
                                     sess.user, auto))]

\* (variant: an empty key is sent like any other)
joinRoomByKey_noValidation(keyValue, sess, auto) ==
    IF sess = NoSession
    THEN [roomError |-> roomError, roomLoading |-> roomLoading,
          issued |-> FALSE, calls |-> calls]
    ELSE [roomError |-> "", roomLoading |-> TRUE, issued |-> TRUE,
          calls |-> Append(calls, NewCall("join", "rpc", keyValue,
                                          toUpperCase(trim(keyValue)),
                                          sess.user, auto))]

\* joinRoomByKey(keyValue) with the session of the closure it was created in:
\* the new values of roomError, roomLoading and the requests in flight.
joinRoomByKey(keyValue, sess, auto) ==
    LET trimmedKey == toUpperCase(trim(keyValue)) IN
    IF sess = NoSession
    THEN [roomError |-> roomError, roomLoading |-> roomLoading,
          issued |-> FALSE, calls |-> calls]
    ELSE IF trimmedKey = EmptyText
    THEN [roomError |-> "Enter a room key", roomLoading |-> roomLoading,
          issued |-> FALSE, calls |-> calls]
    ELSE [roomError |-> "", roomLoading |-> TRUE, issued |-> TRUE,
          calls |-> Append(calls, NewCall("join", "rpc", keyValue, trimmedKey,
                                          sess.user, auto))]

-----------------------------------------------------------------------------
(* Passive effects of the last render *)

\* cleanup of the session effect: awareness.off, provider.off, provider.destroy
Teardown(prs, p) ==
    [prs EXCEPT ![p] = [@ EXCEPT !.onChange = FALSE, !.onStatus = FALSE,
                                 !.live = FALSE, !.emitted = NoStatus]]

\* (variant: the effect registers its listeners and publishes nothing)
Bind_noPublish(prs, p, user) ==
    [prs EXCEPT ![p] = [@ EXCEPT !.onStatus = TRUE, !.onChange = TRUE]]

\* body of the session effect for a provider: provider.on('status'),
\* setLocalStateField('user', user), awareness.on('change')
Bind(prs, p, user) ==
    [prs EXCEPT ![p] = [@ EXCEPT !.onStatus = TRUE, !.local = user.name,
                                 !.onChange = TRUE]]

\* const user = useMemo(() => ({ name: label, ... }), [session])
UserOf(sess) == [name |-> sess.user]

RunEffects ==
    /\ effectsPending
    /\ LET sessChanged == ~mounted \/ << provider, rSession.oid >> # << effProvider, effUser >>
           invChanged == ~mounted \/ << rInviteKey, rSession.oid >> # << effInviteKey, effSession >>
           cleaned == IF sessChanged /\ mounted /\ effProvider # 0
                      THEN Teardown(providers, effProvider) ELSE providers
           bound == IF sessChanged /\ provider # 0
                    THEN Bind(cleaned, provider, UserOf(rSession)) ELSE cleaned
           fire == invChanged /\ rInviteKey # EmptyText /\ rSession # NoSession
           join == IF fire THEN joinRoomByKey(rInviteKey, rSession, TRUE)
                   ELSE [roomError |-> roomError, roomLoading |-> roomLoading,
                         issued |-> FALSE, calls |-> calls]
       IN /\ Len(join.calls) <= MaxCalls
          /\ providers' = bound
          /\ status' = IF ~sessChanged THEN status
                       ELSE IF provider = 0 THEN "disconnected" ELSE "connecting"
          /\ users' = IF ~sessChanged THEN users
                      ELSE IF provider = 0 THEN << >>
                      ELSE AwarenessUsers(bound[provider])
          /\ usersFrom' = IF ~sessChanged THEN usersFrom ELSE provider
          /\ roomError' = join.roomError
          /\ roomLoading' = join.roomLoading
          /\ calls' = join.calls
          /\ autoJoins' = IF join.issued THEN autoJoins + 1 ELSE autoJoins
          /\ ev' = Event("RunEffects",
                         IF join.issued THEN join.calls[Len(join.calls)] ELSE NoCall,
                         provider, sessChanged)
          /\ dirty' = (\/ dirty \/ sessChanged
                       \/ roomError' # roomError \/ roomLoading' # roomLoading)
    /\ effProvider' = provider
    /\ effUser' = rSession.oid
    /\ effInviteKey' = rInviteKey
    /\ effSession' = rSession.oid
    /\ mounted' = TRUE
    /\ effectsPending' = FALSE
    /\ UNCHANGED << dbVars, authVars, session, roomId, inviteKey, url, renderVars,
                    signingOut, signedOut, picks >>

-----------------------------------------------------------------------------
(* User actions.  The JSX decides which controls exist: the sign-in panel   *)
(* without a session, the "Choose a room" panel without a room id (its      *)
(* buttons disabled while roomLoading), the editor with "Sign out" else.    *)

ChooseRoomView == rSession # NoSession /\ rRoomId = NoRoom
EditorView == rSession # NoSession /\ rRoomId # NoRoom

\* handleCreateRoom up to its first await
handleCreateRoom ==
    /\ Settled /\ ChooseRoomView /\ ~roomLoading
    /\ rSession # NoSession
    /\ Len(calls) < MaxCalls
    /\ \E bytes \in RandomBytes :
         LET newKey == generateRoomKey(bytes)
             call == NewCall("create", "insert", EmptyText, newKey,
                             rSession.user, FALSE)
         IN /\ calls' = Append(calls, call)
            /\ ev' = Event("handleCreateRoom", call, 0, FALSE)
    /\ roomError' = ""
    /\ roomLoading' = TRUE
    /\ dirty' = TRUE
    /\ UNCHANGED << dbVars, authVars, status, users, session, roomId, inviteKey,
                    url, effectsPending, renderVars, effectVars, providers,
                    signingOut, usersFrom, autoJoins, signedOut, picks >>

\* handleJoinByKey: joinRoomByKey(roomKeyInput) up to its await
handleJoinByKey ==
    /\ Settled /\ ChooseRoomView /\ ~roomLoading
    /\ Len(calls) < MaxCalls
    /\ \E roomKeyInput \in TypedKeys :
         LET join == joinRoomByKey(roomKeyInput, rSession, FALSE) IN
         /\ roomError' = join.roomError
         /\ roomLoading' = join.roomLoading
         /\ calls' = join.calls
         /\ ev' = Event("handleJoinByKey",
                        IF join.issued THEN join.calls[Len(join.calls)]
                        ELSE [NoCall EXCEPT !.text = roomKeyInput],
                        0, join.issued)
    /\ dirty' = (dirty \/ roomError' # roomError \/ roomLoading' # roomLoading)
    /\ UNCHANGED << dbVars, authVars, status, users, session, roomId, inviteKey,
                    url, effectsPending, renderVars, effectVars, providers,
                    signingOut, usersFrom, autoJoins, signedOut, picks >>

\* handleJoinByInvite up to the await inside joinRoomByKey
handleJoinByInvite ==
    /\ Settled /\ ChooseRoomView /\ ~roomLoading
    /\ Len(calls) < MaxCalls
    /\ \E inviteInput \in InviteTexts :
         LET trimmed == trim(inviteInput)
             keyValue == InviteKeyOf(trimmed)
             join == IF trimmed = EmptyText
                     THEN [roomError |-> "Enter an invite link or key",
                           roomLoading |-> roomLoading, issued |-> FALSE,
                           calls |-> calls]
                     ELSE joinRoomByKey(keyValue, rSession, FALSE)
         IN /\ roomError' = join.roomError
            /\ roomLoading' = join.roomLoading
            /\ calls' = join.calls
            /\ ev' = Event("handleJoinByInvite",
                           IF join.issued THEN join.calls[Len(join.calls)]
                           ELSE [NoCall EXCEPT !.text = IF trimmed = EmptyText
                                                        THEN inviteInput ELSE keyValue],
                           0, join.issued)
    /\ dirty' = (dirty \/ roomError' # roomError \/ roomLoading' # roomLoading)
    /\ UNCHANGED << dbVars, authVars, status, users, session, roomId, inviteKey,
                    url, effectsPending, renderVars, effectVars, providers,
                    signingOut, usersFrom, autoJoins, signedOut, picks >>

\* handleSignOut up to the end of await supabase.auth.signOut(): the client
\* drops its session and notifies the subscriber with null.
handleSignOut ==
    /\ Settled /\ EditorView /\ ~signingOut
    /\ auth' = NoSession
    /\ session' = NoSession
    /\ signingOut' = TRUE
    /\ dirty' = (dirty \/ session' # session)
    /\ ev' = Event("handleSignOut", NoCall, 0, FALSE)
    /\ UNCHANGED << dbVars, nextOid, status, users, roomId, roomError, roomLoading,
                    inviteKey, url, effectsPending, renderVars, effectVars,
                    providers, calls, usersFrom, autoJoins, signedOut, picks >>

\* handleSignOut after the await
handleSignOut_resume ==
    /\ signingOut
    /\ signingOut' = FALSE
    /\ roomId' = NoRoom
    /\ roomError' = ""
    /\ inviteKey' = EmptyText
    /\ url' = updateRoomInUrl(url, NoRoom)
    /\ dirty' = (\/ dirty \/ roomId' # roomId \/ roomError' # roomError
                 \/ inviteKey' # inviteKey)
    /\ signedOut' = (auth = NoSession)
    /\ ev' = Event("handleSignOut_resume", NoCall, 0, FALSE)
    /\ UNCHANGED << dbVars, authVars, status, users, session, roomLoading,
                    effectsPending, renderVars, effectVars, providers, calls,
                    usersFrom, autoJoins, picks >>

-----------------------------------------------------------------------------
(* The data store executes a request, or the request never reaches it *)

clientVars == << status, users, session, roomId, roomError, roomLoading,
                 inviteKey, url, dirty, effectsPending, renderVars, effectVars,
                 providers, signingOut, usersFrom, autoJoins, signedOut, picks >>

Answer(i, pc, resp) == [calls EXCEPT ![i] = [@ EXCEPT !.pc = pc, !.resp = resp]]

ServerInsertRoom(i) ==
    /\ calls[i].pc = "insert"
    /\ Len(rooms) < MaxRooms
    /\ LET r == InsertRoom(rooms, room_members, calls[i].uid, calls[i].key,
                           calls[i].owner)
       IN /\ rooms' = r.rooms
          /\ calls' = Answer(i, "insert_resp", r.resp)
          /\ ev' = Event("InsertRoom", calls'[i], 0, r.resp.error = "")
    /\ UNCHANGED << room_members, authVars, clientVars >>

ServerUpsertMember(i) ==
    /\ calls[i].pc = "upsert"
    /\ LET r == UpsertMember(room_members, calls[i].uid, calls[i].resp.room,
                             calls[i].owner)
       IN /\ room_members' = r.members
          /\ calls' = Answer(i, "upsert_resp", r.resp)
          /\ ev' = Event("UpsertMember", calls'[i], 0,
                         HasMember(room_members, calls[i].resp.room, calls[i].owner))
    /\ UNCHANGED << rooms, authVars, clientVars >>

ServerJoinRoomByKey(i) ==
    /\ calls[i].pc = "rpc"
    /\ LET r == join_room_by_key(rooms, room_members, calls[i].uid, calls[i].key)
       IN /\ room_members' = r.members
          /\ calls' = Answer(i, "rpc_resp", r.resp)
          /\ ev' = Event("join_room_by_key", calls'[i], 0,
                         HasMember(room_members, r.resp.room, calls[i].uid))
    /\ UNCHANGED << rooms, authVars, clientVars >>

\* fetch fails: supabase-js resolves the request with { data: null, error }
RequestFails(i) ==
    /\ calls[i].pc \in { "insert", "upsert", "rpc" }
    /\ calls' = Answer(i, calls[i].pc \o "_resp", Response(NoRoom, MsgFetch))
    /\ ev' = Event("RequestFails", calls'[i], 0, FALSE)
    /\ UNCHANGED << dbVars, authVars, clientVars >>

-----------------------------------------------------------------------------
(* Continuations of the async handlers *)

\* error?.message || fallback
MessageOr(resp, fallback) == IF resp.error # "" THEN resp.error ELSE fallback

\* handleCreateRoom after the rooms insert: report the failure, or send the
\* membership upsert (with the credentials the client holds by now).
handleCreateRoom_afterInsert(i) ==
    /\ calls[i].pc = "insert_resp"
    /\ IF Failed(calls[i].resp)
       THEN /\ roomError' = MessageOr(calls[i].resp, "Failed to create room")
            /\ roomLoading' = FALSE
            /\ calls' = RemoveAt(calls, i)
            /\ ev' = Event("createFailed", calls[i], 0, TRUE)
       ELSE /\ calls' = [calls EXCEPT ![i] = [@ EXCEPT !.pc = "upsert",
                                                       !.uid = auth.user]]
            /\ ev' = Event("createUpsert", calls'[i], 0, TRUE)
            /\ UNCHANGED << roomError, roomLoading >>
    /\ dirty' = (dirty \/ roomError' # roomError \/ roomLoading' # roomLoading)
    /\ UNCHANGED << dbVars, authVars, status, users, session, roomId, inviteKey,
                    url, effectsPending, renderVars, effectVars, providers,
                    signingOut, usersFrom, autoJoins, signedOut, picks >>

\* handleCreateRoom after the membership upsert
handleCreateRoom_afterUpsert(i) ==
    /\ calls[i].pc = "upsert_resp"
    /\ IF calls[i].resp.error # ""
       THEN /\ roomError' = calls[i].resp.error
            /\ roomLoading' = FALSE
            /\ ev' = Event("createFailed", calls[i], 0, TRUE)
            /\ UNCHANGED << roomId, inviteKey, url >>
       ELSE /\ roomId' = calls[i].resp.room
            /\ inviteKey' = EmptyText
            /\ url' = updateRoomInUrl(url, calls[i].resp.room)
            /\ roomLoading' = FALSE
            /\ ev' = Event("createDone", calls[i], 0, TRUE)
            /\ UNCHANGED roomError
    /\ calls' = RemoveAt(calls, i)
    /\ dirty' = (\/ dirty \/ roomError' # roomError \/ roomLoading' # roomLoading
                 \/ roomId' # roomId \/ inviteKey' # inviteKey)
    /\ UNCHANGED << dbVars, authVars, status, users, session, effectsPending,
                    renderVars, effectVars, providers, signingOut, usersFrom,
                    autoJoins, signedOut, picks >>

\* joinRoomByKey after the rpc
joinRoomByKey_afterRpc(i) ==
    /\ calls[i].pc = "rpc_resp"
    /\ IF Failed(calls[i].resp)
       THEN /\ roomError' = MessageOr(calls[i].resp, "Room not found")
            /\ roomLoading' = FALSE
            /\ ev' = Event("joinFailed", calls[i], 0, TRUE)
            /\ UNCHANGED << roomId, inviteKey, url >>
       ELSE /\ roomId' = calls[i].resp.room
            /\ inviteKey' = EmptyText
            /\ url' = updateRoomInUrl(url, calls[i].resp.room)
            /\ roomLoading' = FALSE
            /\ ev' = Event("joinDone", calls[i], 0, TRUE)
            /\ UNCHANGED roomError
    /\ calls' = RemoveAt(calls, i)
    /\ dirty' = (\/ dirty \/ roomError' # roomError \/ roomLoading' # roomLoading
                 \/ roomId' # roomId \/ inviteKey' # inviteKey)
    /\ UNCHANGED << dbVars, authVars, status, users, session, effectsPending,
                    renderVars, effectVars, providers, signingOut, usersFrom,
                    autoJoins, signedOut, picks >>

-----------------------------------------------------------------------------
(* Events of a transport.  A transport that was destroyed may still emit    *)
(* (its socket closes asynchronously); what matters is who listens.  The    *)
(* history variable ev does not tell transport events apart.                *)

\* provider emits 'status': handleStatus = (event) => setStatus(event.status)
StatusEvent(p, value) ==
    /\ IF providers[p].onStatus
       THEN status' = value
       ELSE UNCHANGED status
    /\ providers' = IF providers[p].live
                    THEN [providers EXCEPT ![p] = [@ EXCEPT !.emitted = value]]
                    ELSE providers
    /\ dirty' = (dirty \/ status' # status)
    /\ ev' = Event("transport", NoCall, 0, FALSE)
    /\ UNCHANGED << dbVars, authVars, users, session, roomId, roomError,
                    roomLoading, inviteKey, url, effectsPending, renderVars,
                    effectVars, calls, signingOut, usersFrom, autoJoins,
                    signedOut, picks >>

\* a peer's state on p's awareness channel changes; awareness emits 'change':
\* handleAwareness recomputes the participant list from p's states.  (The
\* map of a destroyed transport nobody listens to is never read again, so its
\* content is not tracked.)
AwarenessChange(p, peer) ==
    /\ peer # providers[p].peer
    /\ providers' = IF providers[p].live \/ providers[p].onChange
                    THEN [providers EXCEPT ![p] = [@ EXCEPT !.peer = peer]]
                    ELSE providers
    /\ IF providers[p].onChange
       THEN /\ users' = AwarenessUsers(providers'[p])
            /\ usersFrom' = p
            /\ dirty' = TRUE
       ELSE UNCHANGED << users, usersFrom, dirty >>
    /\ ev' = Event("transport", NoCall, 0, FALSE)
    /\ UNCHANGED << dbVars, authVars, status, session, roomId, roomError,
                    roomLoading, inviteKey, url, effectsPending, renderVars,
                    effectVars, calls, signingOut, autoJoins, signedOut, picks >>

-----------------------------------------------------------------------------

\* The whole system.
Next ==
    \/ onAuthStateChange
    \/ Render
    \/ RunEffects
    \/ handleCreateRoom
    \/ handleJoinByKey
    \/ handleJoinByInvite
    \/ handleSignOut
    \/ handleSignOut_resume
    \/ \E i \in 1..Len(calls) : ServerInsertRoom(i)
    \/ \E i \in 1..Len(calls) : ServerUpsertMember(i)
    \/ \E i \in 1..Len(calls) : ServerJoinRoomByKey(i)
    \/ \E i \in 1..Len(calls) : RequestFails(i)
    \/ \E i \in 1..Len(calls) : handleCreateRoom_afterInsert(i)
    \/ \E i \in 1..Len(calls) : handleCreateRoom_afterUpsert(i)
    \/ \E i \in 1..Len(calls) : joinRoomByKey_afterRpc(i)
    \/ \E p \in 1..Len(providers), value \in StatusValues : StatusEvent(p, value)
    \/ \E p \in 1..Len(providers), peer \in PeerStates : AwarenessChange(p, peer)

Spec == Init /\ [][Next]_vars

\* The room directory: every client and data store step, the transports
\* silent (no status or awareness event is delivered).
DirNext ==
    \/ onAuthStateChange
    \/ Render
    \/ RunEffects
    \/ handleCreateRoom
    \/ handleJoinByKey
    \/ handleJoinByInvite
    \/ handleSignOut
    \/ handleSignOut_resume
    \/ \E i \in 1..Len(calls) : ServerInsertRoom(i)
    \/ \E i \in 1..Len(calls) : ServerUpsertMember(i)
    \/ \E i \in 1..Len(calls) : ServerJoinRoomByKey(i)
    \/ \E i \in 1..Len(calls) : RequestFails(i)
    \/ \E i \in 1..Len(calls) : handleCreateRoom_afterInsert(i)
    \/ \E i \in 1..Len(calls) : handleCreateRoom_afterUpsert(i)
    \/ \E i \in 1..Len(calls) : joinRoomByKey_afterRpc(i)

DirSpec == Init /\ [][DirNext]_vars

\* The session lifecycle: transports emit freely; rooms are selected by the
\* address, by the invite auto-join and by sign-out only, and every request
\* reaches the data store.
SessNext ==
    \/ onAuthStateChange
    \/ Render
    \/ RunEffects
    \/ handleSignOut
    \/ handleSignOut_resume
    \/ \E i \in 1..Len(calls) : ServerJoinRoomByKey(i)
    \/ \E i \in 1..Len(calls) : joinRoomByKey_afterRpc(i)
    \/ \E p \in 1..Len(providers), value \in StatusValues : StatusEvent(p, value)
    \/ \E p \in 1..Len(providers), peer \in PeerStates : AwarenessChange(p, peer)

SessSpec == Init /\ [][SessNext]_vars

-----------------------------------------------------------------------------
(* The handlers called from a render that has no session.  No control of   *)
(* the sign-in panel is wired to them; this is a direct call of the        *)
(* function the render created.                                            *)

\* handleCreateRoom: if (!supabase || !session) return
handleCreateRoom_signedOut ==
    /\ Settled /\ rSession = NoSession
    /\ ev' = Event("handleCreateRoom", NoCall, 0, FALSE)
    /\ UNCHANGED << dbVars, authVars, status, users, session, roomId, roomError,
                    roomLoading, inviteKey, url, dirty, effectsPending,
                    renderVars, effectVars, providers, calls, signingOut,
                    usersFrom, autoJoins, signedOut, picks >>

\* joinRoomByKey(keyValue) for a typed key
joinRoomByKey_signedOut ==
    /\ Settled /\ rSession = NoSession
    /\ \E keyValue \in TypedKeys :
         LET join == joinRoomByKey(keyValue, rSession, FALSE) IN
         /\ Len(join.calls) <= MaxCalls
         /\ roomError' = join.roomError
         /\ roomLoading' = join.roomLoading
         /\ calls' = join.calls
         /\ ev' = Event("handleJoinByKey",
                        IF join.issued THEN join.calls[Len(join.calls)]
                        ELSE [NoCall EXCEPT !.text = keyValue],
                        0, join.issued)
    /\ dirty' = (dirty \/ roomError' # roomError \/ roomLoading' # roomLoading)
    /\ UNCHANGED << dbVars, authVars, status, users, session, roomId, inviteKey,
                    url, effectsPending, renderVars, effectVars, providers,
                    signingOut, usersFrom, autoJoins, signedOut, picks >>

\* The client with its handlers called whatever the panel on display; the
\* invite auto-join is the only room selection.
ApiNext ==
    \/ onAuthStateChange
    \/ Render
    \/ RunEffects
    \/ handleCreateRoom_signedOut
    \/ joinRoomByKey_signedOut
    \/ \E i \in 1..Len(calls) : ServerJoinRoomByKey(i)
    \/ \E i \in 1..Len(calls) : joinRoomByKey_afterRpc(i)

ApiSpec == Init /\ [][ApiNext]_vars

-----------------------------------------------------------------------------
(* The data store on its own: any principal sends any statement the API    *)
(* accepts, with its own credentials (uid; NoUser for the anon role).       *)
(* Update and delete have no policy and change nothing.                     *)

MsgForeignKey == "insert or update on table room_members violates foreign key constraint"

Roles == Users \cup { NoUser }
RoomIds == 1..MaxRooms
StoreKeys == { generateRoomKey(bytes) : bytes \in RandomBytes }

DbCall(uid, key, user_id, resp) ==
    [NoCall EXCEPT !.kind = "direct", !.uid = uid, !.key = key,
                   !.owner = user_id, !.resp = resp]

\* insert into room_members (room_id, user_id) values (rid, user_id)
InsertMember(rs, ms, uid, rid, user_id) ==
    LET row == [room_id |-> rid, user_id |-> user_id] IN
    IF ~MembersInsertCheck(uid, row)
    THEN [members |-> ms, resp |-> Response(NoRoom, MsgRls)]
    ELSE IF ~\E i \in 1..Len(rs) : rs[i].id = rid
    THEN [members |-> ms, resp |-> Response(NoRoom, MsgForeignKey)]
    ELSE IF HasMember(ms, rid, user_id)
    THEN [members |-> ms, resp |-> Response(NoRoom, MsgDuplicateKey)]
    ELSE [members |-> Append(ms, row), resp |-> Response(rid, "")]

\* select ... from rooms where id = rid: the row, when the policy shows it
SelectRoom(rs, ms, uid, rid) ==
    \E i \in 1..Len(rs) : rs[i].id = rid /\ RoomsSelectUsing(uid, rs[i], ms)

DbInsertRoom(uid, key, owner) ==
    /\ Len(rooms) < MaxRooms
    /\ LET r == InsertRoom(rooms, room_members, uid, key, owner)
       IN /\ rooms' = r.rooms
          /\ ev' = Event("InsertRoom", DbCall(uid, key, owner, r.resp), 0,
                         r.resp.error = "")
    /\ UNCHANGED << room_members, authVars, clientVars, calls >>

DbInsertMember(uid, rid, user_id) ==
    /\ LET r == InsertMember(rooms, room_members, uid, rid, user_id)
       IN /\ room_members' = r.members
          /\ ev' = Event("InsertMember", DbCall(uid, EmptyText, user_id, r.resp), 0,
                         r.resp.error = "")
    /\ UNCHANGED << rooms, authVars, clientVars, calls >>

DbUpsertMember(uid, rid, user_id) ==
    /\ \E i \in 1..Len(rooms) : rooms[i].id = rid
    /\ LET r == UpsertMember(room_members, uid, rid, user_id)
       IN /\ room_members' = r.members
          /\ ev' = Event("UpsertMember", DbCall(uid, EmptyText, user_id, r.resp), 0,
                         HasMember(room_members, rid, user_id))
    /\ UNCHANGED << rooms, authVars, clientVars, calls >>

DbJoinRoomByKey(uid, key) ==
    /\ LET r == join_room_by_key(rooms, room_members, uid, key)
       IN /\ room_members' = r.members
          /\ ev' = Event("join_room_by_key", DbCall(uid, key, uid, r.resp), 0,
                         HasMember(room_members, r.resp.room, uid))
    /\ UNCHANGED << rooms, authVars, clientVars, calls >>

DbSelectRoom(uid, rid) ==
    /\ ev' = Event("SelectRoom",
                   DbCall(uid, EmptyText, uid, Response(rid, "")), 0,
                   SelectRoom(rooms, room_members, uid, rid))
    /\ UNCHANGED << dbVars, authVars, clientVars, calls >>

DbNext ==
    \/ \E uid \in Roles, key \in StoreKeys, owner \in Users : DbInsertRoom(uid, key, owner)
    \/ \E uid \in Roles, rid \in RoomIds, user_id \in Users : DbInsertMember(uid, rid, user_id)
    \/ \E uid \in Roles, rid \in RoomIds, user_id \in Users : DbUpsertMember(uid, rid, user_id)
    \/ \E uid \in Roles, key \in StoreKeys : DbJoinRoomByKey(uid, key)
    \/ \E uid \in Roles, rid \in RoomIds : DbSelectRoom(uid, rid)

DbSpec == Init /\ [][DbNext]_vars

-----------------------------------------------------------------------------
(* The user memo of a client: { name: label, color: pickColor(label) } *)

UserMemo(c) ==
    /\ \E label \in Labels :
         picks' = [picks EXCEPT ![c] = [name |-> label, color |-> pickColor(label),
                                        index |-> PaletteIndex(label)]]
    /\ UNCHANGED << rooms, room_members, auth, nextOid, status, users, session,
                    roomId, roomError, roomLoading, inviteKey, url, dirty,
                    effectsPending, mounted, renderVars, effProvider, effUser,
                    effInviteKey, effSession, providers, calls, signingOut,
                    usersFrom, autoJoins, signedOut, ev >>

ColorNext == \E c \in Clients : UserMemo(c)

ColorSpec == Init /\ [][ColorNext]_vars

-----------------------------------------------------------------------------
(* Properties *)

ReactState == << status, users, session, roomId, roomError, roomLoading, inviteKey >>

\* rows of room_members for one (room, user) pair
MemberRows(rid, uid) ==
    Cardinality({ i \in 1..Len(room_members) :
                    room_members[i].room_id = rid /\ room_members[i].user_id = uid })

\* C1: once the transport of a room B exists, the transport of any other
\* room A constructed before it is torn down (destroyed, no status or
\* awareness listener attached, so none of A's callbacks can run), and a
\* participant list on display was read from the channel of the room shown.
C1_TeardownBeforeConstruct ==
    /\ \A a, b \in 1..Len(providers) :
         (a < b /\ providers[a].room # providers[b].room)
            => (~providers[a].live /\ ~providers[a].onStatus /\ ~providers[a].onChange)
    /\ (usersFrom # 0 /\ users # << >>) => providers[usersFrom].room = rRoomId

\* C2: at most one transport is live (constructed and not destroyed).
C2_AtMostOneLiveTransport == Cardinality(LiveProviders) <= 1

\* C3: a status event or awareness change delivered by a transport that was
\* torn down changes nothing of the client's state.
C3_NoEffectAfterTeardown ==
    [][ \A p \in 1..Len(providers) :
          ( /\ ~providers[p].live
            /\ \/ \E value \in StatusValues : StatusEvent(p, value)
               \/ \E peer \in PeerStates : AwarenessChange(p, peer) )
          => UNCHANGED << ReactState, url, usersFrom >> ]_vars

\* C4: over a whole run the invite effect issues at most one join attempt.
C4_OneAutoJoin == autoJoins <= 1

\* C5: when the automatic invite join has resolved, successfully or not, the
\* address has no invite parameter and the held invite key is empty.
C5_InviteCleared ==
    (ev.op \in { "joinDone", "joinFailed" } /\ ev.call.auto)
        => (url.invite = EmptyText /\ inviteKey = EmptyText)

\* C6: every room key is unchanged by trimming and uppercasing; a join whose
\* text equals a room's key after trimming and uppercasing is answered with
\* that room's id, leaves exactly one membership row for (room, caller)
\* however often it is repeated, and on resolution selects that room.
C6_JoinByKeyResolvesOnce ==
    /\ \A i \in 1..Len(rooms) : toUpperCase(trim(rooms[i].key)) = rooms[i].key
    /\ \A i \in 1..Len(rooms) :
         ( /\ ev.op = "join_room_by_key"
           /\ ev.call.uid \in Users
           /\ toUpperCase(trim(ev.call.text)) = rooms[i].key )
         => ( /\ ev.call.resp = Response(rooms[i].id, "")
              /\ MemberRows(rooms[i].id, ev.call.uid) = 1 )
    /\ \A i \in 1..Len(rooms) :
         ( /\ ev.op \in { "joinDone", "joinFailed" }
           /\ ev.call.resp.error # MsgFetch
           /\ ev.call.uid \in Users
           /\ toUpperCase(trim(ev.call.text)) = rooms[i].key
           /\ ev.call.resp.room = rooms[i].id )
         => (ev.op = "joinDone" /\ roomId = rooms[i].id /\ MemberRows(rooms[i].id, ev.call.uid) = 1)

C6_Witness ==
    /\ ev.op = "join_room_by_key"
    /\ ev.ran
    /\ ev.call.resp.error = ""
    /\ ev.call.text # ev.call.key
    /\ \E i \in 1..Len(rooms) :
         /\ rooms[i].id = ev.call.resp.room
         /\ rooms[i].owner_id # ev.call.uid

\* C7: a join_room_by_key call whose key no room has raises room-not-found
\* and changes neither table nor the selected room; when the client handles
\* that answer it records room-not-found and keeps the selected room.
C7_UnknownKeyRoomNotFound ==
    [][ /\ (ev'.op = "join_room_by_key" /\ ~KeyTaken(rooms, ev'.call.key))
            => ( /\ ev'.call.resp = Response(NoRoom, MsgRoomNotFound)
                 /\ UNCHANGED << rooms, room_members, roomId >> )
        /\ (ev'.op = "joinDone") => ev'.call.resp.error = ""
        /\ (ev'.op = "joinFailed" /\ ev'.call.resp.error = MsgRoomNotFound)
            => ( /\ roomError' = MsgRoomNotFound
                 /\ UNCHANGED << rooms, room_members, roomId >> ) ]_vars

C7_Witness ==
    /\ ev.op = "joinFailed"
    /\ ev.call.resp.error = MsgRoomNotFound
    /\ roomError = MsgRoomNotFound
    /\ ~KeyTaken(rooms, ev.call.key)

\* C8: room_members holds at most one row per (room, user), and an insert
\* that meets an existing row (by the rpc or by createRoom's upsert) is
\* answered without error.
C8_IdempotentMembership ==
    /\ \A i, j \in 1..Len(room_members) :
         (room_members[i].room_id = room_members[j].room_id
          /\ room_members[i].user_id = room_members[j].user_id) => i = j
    /\ (ev.op \in { "join_room_by_key", "UpsertMember" } /\ ev.ran
        /\ ev.call.resp.error # MsgFetch)
          => ev.call.resp.error = ""

\* C9: every transport was constructed with a token and a room id; when the
\* token or the room id is missing and the client has rendered and run its
\* effects, no transport is live or listened to, the status is
\* 'disconnected' and the participant list is empty.
C9_SessionNeedsTokenAndRoom ==
    /\ \A p \in 1..Len(providers) :
         providers[p].token # 0 /\ providers[p].room # NoRoom
    /\ (Settled /\ (Token(session) = 0 \/ roomId = NoRoom))
          => ( /\ provider = 0
               /\ \A p \in 1..Len(providers) :
                    ~providers[p].live /\ ~providers[p].onStatus /\ ~providers[p].onChange
               /\ status = "disconnected"
               /\ users = << >> )

C9_Witness ==
    /\ Settled
    /\ Token(session) = 0
    /\ roomId # NoRoom
    /\ Len(providers) > 0
    /\ status = "disconnected"

\* C10: when a createRoom or joinByKey request has failed, the handler
\* records a non-empty message in roomError, clears roomLoading and leaves
\* the selected room and the address as they were; a failed answer is never
\* taken for a success.
C10_FailureIsRecorded ==
    [][ /\ (ev'.op \in { "createFailed", "joinFailed" })
            => ( /\ roomError' # ""
                 /\ roomError' = MessageOr(ev'.call.resp,
                                   IF ev'.op = "joinFailed" THEN "Room not found"
                                   ELSE "Failed to create room")
                 /\ roomLoading' = FALSE
                 /\ UNCHANGED << roomId, url >> )
        /\ (ev'.op \in { "createDone", "joinDone", "createUpsert" })
            => (ev'.call.resp.error = "" /\ ev'.call.resp.room # NoRoom) ]_vars

C10_Witness ==
    /\ ev.op = "createFailed"
    /\ ev.call.resp.error = MsgDuplicateKey
    /\ roomError = MsgDuplicateKey
    /\ ~roomLoading

\* the claim's fold: h := h * 31 + charCode, kept to 32 bits
Times31Plus(h, c) ==
    LET lo == h[2] * 31 + c
    IN << (h[1] * 31 + (lo \div Word)) % Word, lo % Word >>

RECURSIVE Fold31(_, _)
Fold31(value, h) ==
    IF value = << >> THEN h ELSE Fold31(Tail(value), Times31Plus(h, charCode(Head(value))))

\* |h| mod 5 of the signed reading of h
AbsMod5(h) ==
    LET m == IF h[1] >= HalfWord
             THEN << (Word - h[1] - (IF h[2] = 0 THEN 0 ELSE 1)) % Word,
                     (Word - h[2]) % Word >>
             ELSE h
    IN ((m[1] % 5) * (Word % 5) + m[2]) % 5

\* C12: the colour a client's user memo holds is the palette entry at
\* |h| mod 5, h the signed 32-bit wrapping fold h*31 + charCode of the name
\* from 0; the index is in 0..4 (also for h = -2^31); clients holding the
\* same name hold the same colour.
C12_PickColor ==
    /\ \A c \in Clients :
         picks[c] # NoPick =>
            /\ picks[c].index \in 0..4
            /\ picks[c].index = AbsMod5(Fold31(picks[c].name, Int32Zero))
            /\ picks[c].color = userColors[picks[c].index + 1]
    /\ \A c, d \in Clients :
         picks[c].name = picks[d].name => picks[c].color = picks[d].color

C12_Witness ==
    /\ picks["c1"] # NoPick
    /\ picks["c1"].name = picks["c2"].name
    /\ Fold31(picks["c1"].name, Int32Zero) = << HalfWord, 0 >>
    /\ picks["c1"].color = userColors[4]

\* C11: whenever the selected room id changes, and whenever createRoom or
\* joinByKey succeeds or sign-out completes, the address's room parameter is
\* the new room id (absent when the id is empty), doc and invite are absent
\* and the navigation history has as many entries as before.
C11_AddressFollowsRoom ==
    [][ (\/ roomId' # roomId
         \/ ev'.op \in { "createDone", "joinDone", "handleSignOut_resume" })
        => ( /\ url'.room = roomId'
             /\ url'.doc = NoRoom
             /\ url'.invite = EmptyText
             /\ url'.entries = url.entries ) ]_vars

C11_Witness ==
    /\ ev.op = "joinDone"
    /\ ev.call.text = << " ","x","y","z","9","8","7" >>
    /\ roomId = 2
    /\ url = [room |-> 2, doc |-> NoRoom, invite |-> EmptyText, entries |-> 1]

\* C13: a transport whose status events are handled has the local
\* descriptor published on its awareness channel; the effect that binds a
\* session publishes the rendered user's descriptor and shows 'connecting'
\* in the same step, whatever the transport has emitted so far.
C13_PublishedBeforeConnected ==
    /\ \A p \in 1..Len(providers) :
         providers[p].onStatus => providers[p].local # NoName
    /\ (ev.op = "RunEffects" /\ ev.ran /\ ev.p # 0)
         => ( /\ providers[ev.p].local = UserOf(rSession).name
              /\ status = "connecting" )
    /\ \A p \in 1..Len(providers) :
         (status = "connected" /\ providers[p].live /\ providers[p].onStatus)
            => providers[p].local # NoName

C13_Witness ==
    /\ ev.op = "RunEffects" /\ ev.ran /\ ev.p # 0
    /\ providers[ev.p].live
    /\ providers[ev.p].emitted = NoStatus
    /\ providers[ev.p].local = "u1"
    /\ status = "connecting"

\* C14: while a transport is live and the client listens to it, the status
\* field is the status of the last status event that transport emitted
\* since it was constructed, 'connecting' if it emitted none.
C14_StatusIsForwarded ==
    \A p \in 1..Len(providers) :
       (providers[p].live /\ providers[p].onStatus)
          => status = (IF providers[p].emitted = NoStatus THEN "connecting"
                       ELSE providers[p].emitted)

\* the descriptors published by the connections in a transport's awareness map
PublishedIn(pr) ==
    { [name |-> n] : n \in { m \in { pr.local, IF pr.peer = "user" THEN PeerName
                                                 ELSE NoName } : m # NoName } }

SameEntries(list, set) ==
    /\ { list[i] : i \in 1..Len(list) } = set
    /\ Len(list) = Cardinality(set)

\* C16: right after the effect binds a session, and after every awareness
\* change of a live transport the client listens to, the participant list
\* has exactly one entry per connection of that transport's awareness map
\* that has published a descriptor.
C16_ParticipantList ==
    [][ /\ (ev'.op = "RunEffects" /\ ev'.ran /\ ev'.p # 0)
            => SameEntries(users', PublishedIn(providers'[ev'.p]))
        /\ \A p \in 1..Len(providers) :
             ( /\ providers[p].live /\ providers[p].onChange
               /\ \E peer \in PeerStates : AwarenessChange(p, peer) )
             => SameEntries(users', PublishedIn(providers'[p])) ]_vars

C16_Witness ==
    /\ provider # 0
    /\ usersFrom = provider
    /\ providers[provider].live /\ providers[provider].onChange
    /\ providers[provider].peer = "nouser"
    /\ users = << [name |-> "u1"] >>
    /\ ev.op = "transport"

\* C15: once handleSignOut has completed, the null session has been rendered
\* and its effects have run (and nobody has signed in since), no transport
\* is live or listened to, the status is 'disconnected', the participant
\* list, the selected room id and the held invite key are empty, and the
\* address has no room, doc or invite parameter.
C15_SignedOutIsClean ==
    (signedOut /\ ~signingOut /\ session = NoSession /\ Settled)
       => ( /\ \A p \in 1..Len(providers) :
                 ~providers[p].live /\ ~providers[p].onStatus /\ ~providers[p].onChange
            /\ status = "disconnected"
            /\ users = << >>
            /\ roomId = NoRoom
            /\ inviteKey = EmptyText
            /\ url.room = NoRoom /\ url.doc = NoRoom /\ url.invite = EmptyText )

\* C17: when a createRoom completes successfully, rooms holds a row with the
\* returned id, the generated key and the caller as owner, room_members
\* holds exactly one row for (that room, the caller), and the selected room
\* id is that room's id.
C17_CreateRoomSucceeds ==
    (ev.op = "createDone")
       => ( /\ ev.call.owner \in Users
            /\ \E i \in 1..Len(rooms) :
                 rooms[i] = [id |-> ev.call.resp.room, key |-> ev.call.key,
                             owner_id |-> ev.call.owner]
            /\ Cardinality({ i \in 1..Len(rooms) : rooms[i].id = ev.call.resp.room }) = 1
            /\ MemberRows(ev.call.resp.room, ev.call.owner) = 1
            /\ roomId = ev.call.resp.room )

C17_Witness ==
    /\ ev.op = "createDone"
    /\ ev.call.owner = "u1"
    /\ roomId = 3
    /\ rooms[3] = [id |-> 3, key |-> << "A","B","C","1","2","3" >>, owner_id |-> "u1"]
    /\ MemberRows(3, "u1") = 1

\* C18: when the rooms insert of a createRoom is answered with a key
\* collision, the handler does not report yet: it keeps the operation in
\* flight and sends a new insert with a regenerated key; and no two rows of
\* rooms share a key.
C18_RetryOnKeyCollision ==
    [][ /\ \A i \in 1..Len(calls) :
             ( /\ calls[i].pc = "insert_resp"
               /\ calls[i].resp.error = MsgDuplicateKey
               /\ handleCreateRoom_afterInsert(i) )
             => ( /\ Len(calls') = Len(calls)
                  /\ calls'[i].pc = "insert"
                  /\ calls'[i].key # calls[i].key
                  /\ roomError' = roomError )
        /\ \A i, j \in 1..Len(rooms') :
             rooms'[i].key = rooms'[j].key => i = j ]_vars

\* C19: a join by key or by invite whose text is empty after trimming (the
\* typed key, the pasted text, or the key taken from a pasted link) sets a
\* validation message in roomError, sends no request and leaves the selected
\* room, the address and both tables unchanged; any other text is sent.
C19_EmptyKeyRejected ==
    [][ (ev'.op \in { "handleJoinByKey", "handleJoinByInvite" })
        => /\ ev'.ran = (trim(ev'.call.text) # EmptyText)
           /\ ~ev'.ran
                => ( /\ roomError' \in { "Enter a room key",
                                         "Enter an invite link or key" }
                     /\ calls' = calls
                     /\ UNCHANGED << roomId, url, rooms, room_members, roomLoading >> ) ]_vars

C19_Witness ==
    /\ ev.op = "handleJoinByInvite"
    /\ ~ev.ran
    /\ ev.call.text = << " " >>
    /\ roomError = "Enter a room key"
    /\ calls = << >>

\* C20: a createRoom or joinByKey called while the render has no session
\* records an error, sends no request and leaves the selected room and both
\* tables unchanged.
C20_AuthRequired ==
    [][ (ev'.op \in { "handleCreateRoom", "handleJoinByKey" } /\ rSession = NoSession)
        => ( /\ roomError' # ""
             /\ calls' = calls
             /\ UNCHANGED << roomId, rooms, room_members >> ) ]_vars

\* C21: when a token and a selected room id are both present and the client
\* has rendered and run its effects, the client has a transport, its status
\* and awareness listeners are registered on it, and that transport is live.
C21_ListenersOnLiveTransport ==
    (Settled /\ Token(session) # 0 /\ roomId # NoRoom)
       => ( /\ provider # 0
            /\ providers[provider].onStatus /\ providers[provider].onChange
            /\ providers[provider].live )

\* C22: the answer to a createRoom or a join, handled when the principal who
\* issued it is no longer signed in, changes neither the selected room id
\* nor the address.
C22_StaleResultDiscarded ==
    [][ ( /\ ev'.op \in { "createDone", "createFailed", "joinDone", "joinFailed" }
          /\ auth.user # ev'.call.owner )
        => UNCHANGED << roomId, url >> ]_vars

\* C23: roomLoading is true exactly while a createRoom or a join of this
\* client is in flight (sent and its answer not yet handled).
C23_LoadingWhileInFlight == roomLoading = (calls # << >>)

\* the principal owns the room (created it) / the room's key
OwnerOf(rs, rid, uid) == \E i \in 1..Len(rs) : rs[i].id = rid /\ rs[i].owner_id = uid
KeyOf(rs, rid, key) == \E i \in 1..Len(rs) : rs[i].id = rid /\ rs[i].key = key

\* C24: a principal is shown a room's row only if it owns the room or has a
\* membership row for it; and a membership row (R, P) comes into being only
\* for the principal that created R or by P's successful join_room_by_key
\* call with R's key.
C24_ReadAndMembership ==
    [][ /\ (ev'.op = "SelectRoom" /\ ev'.ran)
            => ( \/ OwnerOf(rooms, ev'.call.resp.room, ev'.call.uid)
                 \/ HasMember(room_members, ev'.call.resp.room, ev'.call.uid) )
        /\ \A rid \in RoomIds, uid \in Users :
             (HasMember(room_members', rid, uid) /\ ~HasMember(room_members, rid, uid))
                => ( \/ OwnerOf(rooms', rid, uid)
                     \/ ( /\ ev'.op = "join_room_by_key"
                          /\ ev'.call.uid = uid
                          /\ ev'.call.resp = Response(rid, "")
                          /\ KeyOf(rooms', rid, ev'.call.key) ) ) ]_vars

====
